---- MODULE Spec2Model ----
(***************************************************************************)
(* A model of the two MAAS hardware audits of generate_hw_upgrade_data:    *)
(*   generate_disk_replacement_summary.py  (prog = "disk")                 *)
(*   generate_nic_summary.py               (prog = "nic")                  *)
(* Each script queries the inventory once, walks the returned list of      *)
(* machine records in order, prints a verdict per machine, files the       *)
(* machine's name into a bucket and prints a summary at the end.           *)
(*                                                                         *)
(* JSON values are modelled with their Python behaviour.  A dictionary     *)
(* field is a record whose t says whether the key is absent ("absent"),    *)
(* present with JSON null ("None") or present with a value.  Byte sizes    *)
(* exceed the 32 bit integers of TLC, so an integer n is held as   *)
(* two limbs, n = hi * Limb + lo with 0 <= lo < Limb; Python integers are  *)
(* unbounded, and so are these for every size the model uses.              *)
(***************************************************************************)
EXTENDS Integers, Sequences, FiniteSets, TLC

\* ------------------------------------------------------------------ bounds
\* Longest list of machine records one fetch returns.
MaxMachines == 3
\* Longest blockdevice_set of a machine record.
MaxDevices == 2
\* Longest interface_set of a machine record.
MaxIfaces == 3

\* ----------------------------------------------------------- Python values
Limb == 10^6

PyNone == [t |-> "None", hi |-> 0, lo |-> 0]
AbsentInt == [t |-> "absent", hi |-> 0, lo |-> 0]
PyInt(n) == [t |-> "int", hi |-> 0, lo |-> n]
PyBig(h, l) == [t |-> "int", hi |-> h, lo |-> l]

\* a >= b and a > b on Python integers (both operands integers).
IntGE(a, b) == a.hi > b.hi \/ (a.hi = b.hi /\ a.lo >= b.lo)
IntGT(a, b) == a.hi > b.hi \/ (a.hi = b.hi /\ a.lo > b.lo)

\* Strings that the program only passes around (machine names).
NoneStr == [t |-> "None", s |-> ""]
AbsentStr == [t |-> "absent", s |-> ""]
PyStr(s) == [t |-> "str", s |-> s]

\* Strings that the program looks into (interface names): sequences of
\* characters.
NoneName == [t |-> "None", s |-> <<>>]
AbsentName == [t |-> "absent", s |-> <<>>]
PyName(cs) == [t |-> "str", s |-> cs]

\* Lists of strings (tags).
NoneList == [t |-> "None", l |-> <<>>]
AbsentList == [t |-> "absent", l |-> <<>>]
PyList(l) == [t |-> "list", l |-> l]

\* Booleans (enabled).
AbsentBool == [t |-> "absent", b |-> FALSE]
PyBool(b) == [t |-> "bool", b |-> b]

\* dict.get(key, default): the default only when the key is absent; a key
\* present with null yields None.
Get(field, default) == IF field.t = "absent" THEN default ELSE field

\* x in l, for a list l.
In(x, l) == \E k \in 1..Len(l) : l[k] = x

\* The threshold 1_000_000_000_000 of both disk tests.
TB == PyBig(Limb, 0)

\* -------------------------------------- generate_disk_replacement_summary
\* format_size divides the size twice; the text it renders is display only
\* and is not modelled.  What the callers depend on is whether it returns:
\* None / (1024**4) raises TypeError.
format_size_raises(size_bytes) == size_bytes.t = "None"

Raised == [raised |-> TRUE, id |-> PyNone, size |-> PyInt(0),
           is_ssd |-> FALSE, is_1tb_ssd |-> FALSE]

NoBootDiskInfo == [raised |-> FALSE, id |-> PyNone, size |-> PyInt(0),
                   is_ssd |-> FALSE, is_1tb_ssd |-> FALSE]

\* Faulty variant of analyze_boot_disk: the threshold test is strict.
analyze_boot_disk_strict(machine) ==
    LET boot_disk == Get(machine.boot_disk, [t |-> "None", d |-> machine.boot_disk.d])
    IN  IF boot_disk.t = "None" THEN NoBootDiskInfo
        ELSE LET boot_disk_id == Get(boot_disk.d.id, PyNone)
                 boot_disk_size == Get(boot_disk.d.size, PyInt(0))
                 tags == Get(boot_disk.d.tags, PyList(<<>>))
             IN  IF tags.t = "None" THEN Raised
                 ELSE IF boot_disk_size.t = "None" THEN Raised
                 ELSE [raised |-> FALSE,
                       id |-> boot_disk_id,
                       size |-> boot_disk_size,
                       is_ssd |-> In("ssd", tags.l),
                       is_1tb_ssd |-> In("ssd", tags.l) /\ IntGT(boot_disk_size, TB)]

\* analyze_boot_disk.  It raises TypeError on tags null ("ssd" in None) and
\* on size null (None >= int when the disk is an SSD, else format_size).
analyze_boot_disk(machine) ==
    LET boot_disk == Get(machine.boot_disk, [t |-> "None", d |-> machine.boot_disk.d])
    IN  IF boot_disk.t = "None" THEN NoBootDiskInfo
        ELSE LET boot_disk_id == Get(boot_disk.d.id, PyNone)
                 boot_disk_size == Get(boot_disk.d.size, PyInt(0))
                 tags == Get(boot_disk.d.tags, PyList(<<>>))
             IN  IF tags.t = "None" THEN Raised
                 ELSE IF In("ssd", tags.l) /\ boot_disk_size.t = "None" THEN Raised
                 ELSE IF format_size_raises(boot_disk_size) THEN Raised
                 ELSE [raised |-> FALSE,
                       id |-> boot_disk_id,
                       size |-> boot_disk_size,
                       is_ssd |-> In("ssd", tags.l),
                       is_1tb_ssd |-> In("ssd", tags.l) /\ IntGE(boot_disk_size, TB)]

\* The three media types a device line shows.
device_type(tags) ==
    IF In("ssd", tags.l) THEN "ssd"
    ELSE IF In("rotary", tags.l) THEN "rotary" ELSE "unknown"

NoBlockDevices == [raised |-> FALSE, additional_1tb_ssds |-> 0,
                   has_non_boot_ssd_under_1tb |-> FALSE, device_info |-> <<>>]

\* The loop of analyze_block_devices over the devices not yet seen; acc holds
\* the three locals.  It raises on tags null and on size null (format_size).
RECURSIVE scan_devices(_, _, _)
scan_devices(devices, boot_disk_id, acc) ==
    IF devices = <<>> THEN acc
    ELSE LET device == Head(devices)
             device_id == Get(device.id, PyNone)
             device_size == Get(device.size, PyInt(0))
             tags == Get(device.tags, PyList(<<>>))
         IN  IF tags.t = "None" THEN [acc EXCEPT !.raised = TRUE]
             ELSE IF format_size_raises(device_size) THEN [acc EXCEPT !.raised = TRUE]
             ELSE LET device_is_ssd == In("ssd", tags.l)
                      counted == device_id # boot_disk_id
                      big == device_is_ssd /\ IntGE(device_size, TB)
                      small == device_is_ssd /\ ~IntGE(device_size, TB)
                  IN  scan_devices(Tail(devices), boot_disk_id,
                        [raised |-> FALSE,
                         additional_1tb_ssds |->
                            acc.additional_1tb_ssds + (IF counted /\ big THEN 1 ELSE 0),
                         has_non_boot_ssd_under_1tb |->
                            acc.has_non_boot_ssd_under_1tb \/ (counted /\ ~big /\ small),
                         device_info |-> Append(acc.device_info, device_type(tags))])

\* analyze_block_devices.  A blockdevice_set present with null raises
\* TypeError at the for statement.
analyze_block_devices(machine, boot_disk_id) ==
    IF machine.blockdevice_set.t = "absent" THEN NoBlockDevices
    ELSE IF machine.blockdevice_set.t = "None" THEN [NoBlockDevices EXCEPT !.raised = TRUE]
    ELSE scan_devices(machine.blockdevice_set.l, boot_disk_id, NoBlockDevices)

\* Faulty variant of categorize_machine: the last test asks for a positive count, so
\* the combination (not boot, 0) falls through.
categorize_machine_gap(boot_disk_info, block_device_info) ==
    LET boot_disk_1tb_ssd == boot_disk_info.is_1tb_ssd
        additional_1tb_ssds == block_device_info.additional_1tb_ssds
    IN  IF boot_disk_1tb_ssd /\ additional_1tb_ssds >= 1 THEN "no_change_needed"
        ELSE IF ~boot_disk_1tb_ssd /\ additional_1tb_ssds >= 1
             THEN "need_boot_disk_replacement"
        ELSE IF boot_disk_1tb_ssd /\ additional_1tb_ssds = 0
             THEN IF block_device_info.has_non_boot_ssd_under_1tb
                  THEN "need_second_disk_replacement"
                  ELSE "need_second_disk_addition"
        ELSE IF ~boot_disk_1tb_ssd /\ additional_1tb_ssds > 0
             THEN "need_both_boot_and_second_disk"
        ELSE "None"

\* Faulty variant of categorize_machine: the two second-disk categories are swapped.
categorize_machine_swapped(boot_disk_info, block_device_info) ==
    LET boot_disk_1tb_ssd == boot_disk_info.is_1tb_ssd
        additional_1tb_ssds == block_device_info.additional_1tb_ssds
    IN  IF boot_disk_1tb_ssd /\ additional_1tb_ssds >= 1 THEN "no_change_needed"
        ELSE IF ~boot_disk_1tb_ssd /\ additional_1tb_ssds >= 1
             THEN "need_boot_disk_replacement"
        ELSE IF boot_disk_1tb_ssd /\ additional_1tb_ssds = 0
             THEN IF block_device_info.has_non_boot_ssd_under_1tb
                  THEN "need_second_disk_addition"
                  ELSE "need_second_disk_replacement"
        ELSE IF ~boot_disk_1tb_ssd /\ additional_1tb_ssds = 0
             THEN "need_both_boot_and_second_disk"
        ELSE "None"

\* categorize_machine.  The if/elif chain has no else: when no test holds the
\* function returns None, written "None" here.
categorize_machine(boot_disk_info, block_device_info) ==
    LET boot_disk_1tb_ssd == boot_disk_info.is_1tb_ssd
        additional_1tb_ssds == block_device_info.additional_1tb_ssds
        has_non_boot_ssd_under_1tb == block_device_info.has_non_boot_ssd_under_1tb
        has_required_config == boot_disk_1tb_ssd /\ additional_1tb_ssds >= 1
    IN  IF has_required_config THEN "no_change_needed"
        ELSE IF ~boot_disk_1tb_ssd /\ additional_1tb_ssds >= 1
             THEN "need_boot_disk_replacement"
        ELSE IF boot_disk_1tb_ssd /\ additional_1tb_ssds = 0
             THEN IF has_non_boot_ssd_under_1tb
                  THEN "need_second_disk_replacement"
                  ELSE "need_second_disk_addition"
        ELSE IF ~boot_disk_1tb_ssd /\ additional_1tb_ssds = 0
             THEN "need_both_boot_and_second_disk"
        ELSE "None"

\* Faulty variant of the verdict of print_machine_details: the boot disk test is lost.
has_required_config_no_boot(boot_disk_info, block_device_info) ==
    block_device_info.additional_1tb_ssds >= 1

\* The verdict print_machine_details computes for "Machine meets requirements".
has_required_config(boot_disk_info, block_device_info) ==
    boot_disk_info.is_1tb_ssd /\ block_device_info.additional_1tb_ssds >= 1

\* The five keys of the categories dictionary, in the order of the literal.
CategoryNames == <<"no_change_needed", "need_boot_disk_replacement",
                   "need_second_disk_replacement", "need_second_disk_addition",
                   "need_both_boot_and_second_disk">>

Categories == {CategoryNames[k] : k \in 1..Len(CategoryNames)}

\* Faulty variant of the bucket update: the name is put in front.
append_name_front(bucket, machine_name) == <<machine_name>> \o bucket

\* list.append of a machine name to a bucket.
append_name(bucket, machine_name) == Append(bucket, machine_name)

\* --------------------------------------------------- generate_nic_summary
\* format_speed: "unknown", "<n> Gbps" (n = speed // 1000) or "<n> Mbps".
format_speed(speed) ==
    IF speed.t = "None" THEN [unit |-> "unknown", n |-> 0]
    ELSE IF speed.lo >= 1000 THEN [unit |-> "Gbps", n |-> speed.lo \div 1000]
    ELSE [unit |-> "Mbps", n |-> speed.lo]

NoInterfaces == [raised |-> FALSE, interfaces |-> <<>>, connected_count |-> 0,
                 meets_requirement |-> FALSE]

\* Faulty variant of the connection test: a link speed of 0 counts as connected.
is_connected_zero(link_speed) == link_speed.t # "None" /\ IntGE(link_speed, PyInt(0))

\* link_speed is not None and link_speed > 0.
is_connected(link_speed) == link_speed.t # "None" /\ IntGT(link_speed, PyInt(0))

\* The loop of analyze_interfaces; acc holds interfaces and connected_count.
\* "." in None raises TypeError.
RECURSIVE scan_interfaces(_, _)
scan_interfaces(ifaces, acc) ==
    IF ifaces = <<>> THEN acc
    ELSE LET interface == Head(ifaces)
             interface_name == Get(interface.name,
                                   PyName(<<"u", "n", "k", "n", "o", "w", "n">>))
         IN  IF interface_name.t = "None" THEN [acc EXCEPT !.raised = TRUE]
             ELSE IF In(".", interface_name.s) THEN scan_interfaces(Tail(ifaces), acc)
             ELSE LET link_speed == Get(interface.link_speed, PyNone)
                      interface_speed == Get(interface.interface_speed, PyNone)
                      interface_info ==
                          [name |-> interface_name.s,
                           enabled |-> Get(interface.enabled, PyBool(FALSE)).b,
                           interface_speed |-> interface_speed,
                           link_speed |-> link_speed,
                           interface_speed_formatted |-> format_speed(interface_speed),
                           link_speed_formatted |-> format_speed(link_speed),
                           is_connected |-> is_connected(link_speed)]
                  IN  scan_interfaces(Tail(ifaces),
                        [acc EXCEPT
                           !.interfaces = Append(@, interface_info),
                           !.connected_count =
                               IF is_connected(link_speed) THEN @ + 1 ELSE @])

\* analyze_interfaces.  An interface_set present with null raises TypeError
\* at the for statement; the requirement is connected_count >= 3.
analyze_interfaces(machine) ==
    IF machine.interface_set.t = "absent" THEN NoInterfaces
    ELSE IF machine.interface_set.t = "None" THEN [NoInterfaces EXCEPT !.raised = TRUE]
    ELSE LET r == scan_interfaces(machine.interface_set.l, NoInterfaces)
         IN  [r EXCEPT !.meets_requirement = (~r.raised /\ r.connected_count >= 3)]

\* ------------------------------------------------------------ both scripts
\* Faulty variant of the name lookup: fqdn is asked before hostname.
resolve_name_fqdn_first(machine) ==
    Get(machine.fqdn, Get(machine.hostname, Get(machine.system_id, PyStr("unknown"))))

\* machine.get("hostname", machine.get("fqdn", machine.get("system_id", "unknown")))
resolve_name(machine) ==
    Get(machine.hostname, Get(machine.fqdn, Get(machine.system_id, PyStr("unknown"))))

\* ------------------------------------------------------------------ inputs
\* The records a fetch may return.  A machine record carries the keys the
\* scripts read; a block device carries id, size and tags (its name is only
\* shown), an interface carries name, link_speed, enabled, interface_speed.
Device(id, size, tags) == [id |-> id, size |-> size, tags |-> tags]

NoDevice == Device(AbsentInt, AbsentInt, AbsentList)
AbsentDict == [t |-> "absent", d |-> NoDevice]
NoneDict == [t |-> "None", d |-> NoDevice]
PyDict(d) == [t |-> "dict", d |-> d]

NoDevices == [t |-> "absent", l |-> <<>>]
NullDevices == [t |-> "None", l |-> <<>>]

Machine(hostname, fqdn, system_id, boot_disk, blockdevice_set, interface_set) ==
    [hostname |-> hostname, fqdn |-> fqdn, system_id |-> system_id,
     boot_disk |-> boot_disk, blockdevice_set |-> blockdevice_set,
     interface_set |-> interface_set]

SeqsUpTo(S, n) == UNION {[1..k -> S] : k \in 0..n}

SSD == PyList(<<"ssd">>)
Rotary == PyList(<<"rotary">>)
JustUnder == PyBig(Limb - 1, Limb - 1)
HalfTB == PyBig(500000, 0)
TwoTB == PyBig(2 * Limb, 0)

\* Boot disks in full: every mix of id, size and tags around the threshold.
WideBoot ==
    {AbsentDict, NoneDict} \cup
    {PyDict(Device(id, size, tags)) :
        id \in {AbsentInt, PyInt(1)},
        size \in {AbsentInt, PyNone, JustUnder, TB, TwoTB},
        tags \in {AbsentList, NoneList, PyList(<<>>), SSD, Rotary}}

\* The few other devices that go with them (device 1 is the boot disk).
FewDevices ==
    {Device(PyInt(1), TB, SSD), Device(PyInt(2), TB, SSD),
     Device(PyInt(2), HalfTB, SSD), Device(PyInt(2), TwoTB, Rotary)}

\* Block devices in full, and two that make the analysis raise.
WideDevices ==
    {Device(id, size, tags) :
        id \in {AbsentInt, PyInt(1), PyInt(2)},
        size \in {AbsentInt, JustUnder, TB},
        tags \in {SSD, Rotary}} \cup
    {Device(PyInt(2), TB, AbsentList),
     Device(PyInt(2), PyNone, Rotary), Device(PyInt(2), TB, NoneList)}

\* The few boot disks that go with them.
FewBoot ==
    {AbsentDict, NoneDict,
     PyDict(Device(PyInt(1), TB, SSD)),
     PyDict(Device(AbsentInt, TB, SSD)),
     PyDict(Device(PyInt(1), TB, Rotary))}

DeviceLists(S) ==
    {NoDevices, NullDevices} \cup {[t |-> "list", l |-> l] : l \in SeqsUpTo(S, MaxDevices)}

NoIfaces == [t |-> "absent", l |-> <<>>]
NullIfaces == [t |-> "None", l |-> <<>>]

Iface(name, link_speed, enabled, interface_speed) ==
    [name |-> name, link_speed |-> link_speed, enabled |-> enabled,
     interface_speed |-> interface_speed]

Eth0 == PyName(<<"e", "0">>)
Vlan == PyName(<<"e", "0", ".", "7">>)

\* Interfaces: a plain one at every link speed, a VLAN one connected and
\* not, an unnamed one, two plain ones disabled or without the flag and
\* without interface_speed, and one with a null name.
Ifaces ==
    {Iface(Eth0, link_speed, PyBool(TRUE), PyInt(10000)) :
        link_speed \in {AbsentInt, PyNone, PyInt(0), PyInt(1000)}} \cup
    {Iface(Vlan, link_speed, PyBool(TRUE), PyInt(10000)) :
        link_speed \in {PyInt(0), PyInt(1000)}} \cup
    {Iface(Eth0, PyInt(100), enabled, AbsentInt) :
        enabled \in {AbsentBool, PyBool(FALSE)}} \cup
    {Iface(AbsentName, PyInt(1000), PyBool(TRUE), PyInt(10000)),
     Iface(NoneName, PyInt(1000), PyBool(TRUE), PyNone)}

IfaceLists ==
    {NoIfaces, NullIfaces} \cup {[t |-> "list", l |-> l] : l \in SeqsUpTo(Ifaces, MaxIfaces)}

\* The name keys in full.
WideNames ==
    {<<h, f, s>> :
        h \in {AbsentStr, NoneStr, PyStr("h1")},
        f \in {AbsentStr, NoneStr, PyStr("f1")},
        s \in {AbsentStr, NoneStr, PyStr("s1")}}

\* Records of the disk audit returned alone.
DiskMachines ==
    {Machine(PyStr("h1"), AbsentStr, AbsentStr, b, ds, NoIfaces) :
        b \in WideBoot, ds \in DeviceLists(FewDevices)} \cup
    {Machine(PyStr("h1"), AbsentStr, AbsentStr, b, ds, NoIfaces) :
        b \in FewBoot, ds \in DeviceLists(WideDevices)} \cup
    {Machine(n[1], n[2], n[3], PyDict(Device(PyInt(1), TB, SSD)), ds, NoIfaces) :
        n \in WideNames,
        ds \in {NoDevices, [t |-> "list", l |-> <<Device(PyInt(2), TB, SSD)>>]}}

\* Records of the disk audit returned in longer lists: one per category and
\* one whose analysis raises, two of them under a second host name too.
FleetDisks ==
    <<<<PyDict(Device(PyInt(1), TB, SSD)),
        [t |-> "list", l |-> <<Device(PyInt(1), TB, SSD), Device(PyInt(2), TB, SSD)>>]>>,
      <<PyDict(Device(PyInt(1), TwoTB, Rotary)),
        [t |-> "list", l |-> <<Device(PyInt(2), TB, SSD)>>]>>,
      <<PyDict(Device(PyInt(1), TB, SSD)),
        [t |-> "list", l |-> <<Device(PyInt(2), HalfTB, SSD)>>]>>,
      <<PyDict(Device(PyInt(1), TB, SSD)), NoDevices>>,
      <<AbsentDict, NoDevices>>,
      <<PyDict(Device(PyInt(1), TB, SSD)), NullDevices>>>>

DiskFleet ==
    {Machine(PyStr("h1"), AbsentStr, AbsentStr, FleetDisks[k][1], FleetDisks[k][2], NoIfaces) :
        k \in 1..Len(FleetDisks)} \cup
    {Machine(PyStr("h2"), AbsentStr, AbsentStr, FleetDisks[k][1], FleetDisks[k][2], NoIfaces) :
        k \in {1, 5}}

\* Records of the interface audit returned alone.
NicMachines ==
    {Machine(PyStr("h1"), AbsentStr, AbsentStr, AbsentDict, NoDevices, is) :
        is \in IfaceLists} \cup
    {Machine(n[1], n[2], n[3], AbsentDict, NoDevices, is) :
        n \in WideNames,
        is \in {NoIfaces, [t |-> "list", l |-> [k \in 1..3 |->
                    Iface(Eth0, PyInt(1000), PyBool(TRUE), PyInt(1000))]]}}

\* Records of the interface audit returned in longer lists.
NicFleet ==
    {Machine(PyStr(h), AbsentStr, AbsentStr, AbsentDict, NoDevices, is) :
        h \in {"h1", "h2"},
        is \in {NoIfaces, NullIfaces,
                [t |-> "list", l |-> [k \in 1..3 |->
                    Iface(Eth0, PyInt(1000), PyBool(TRUE), PyInt(1000))]]}}

\* The lists json.loads may hand to main.
MachineLists(p) ==
    IF p = "disk"
    THEN SeqsUpTo(DiskFleet, MaxMachines) \cup {<<m>> : m \in DiskMachines}
    ELSE SeqsUpTo(NicFleet, MaxMachines) \cup {<<m>> : m \in NicMachines}

\* ------------------------------------------------------------------- state
VARIABLES
    prog,                 \* which script runs: "disk" or "nic"
    pc,                   \* where main is
    fetch,                \* how get_maas_machines ended; "" before it
    queries,              \* how many times the maas command was run
    machines,             \* the list get_maas_machines returned
    idx,                  \* how many records the for loop has taken
    machine_name,         \* main's local of that name
    boot_disk_info,       \* main's local (disk)
    block_device_info,    \* main's local (disk)
    interface_data,       \* main's local (nic)
    category,             \* main's local (disk); "" before the first one
    categories,           \* the five buckets (disk)
    machines_meeting,     \* (nic)
    machines_not_meeting, \* (nic)
    stdout,               \* what was printed, one entry per block
    stderr,               \* what went to the error stream; "" if nothing
    exit_status,          \* the exit status; -1 while running
    raised_in             \* the function an uncaught exception came from

vars == <<prog, pc, fetch, queries, machines, idx, machine_name, boot_disk_info,
          block_device_info, interface_data, category, categories,
          machines_meeting, machines_not_meeting, stdout, stderr, exit_status,
          raised_in>>

locals == <<machine_name, boot_disk_info, block_device_info, interface_data, category>>
buckets == <<categories, machines_meeting, machines_not_meeting>>
run == <<prog, fetch, queries, machines>>
ending == <<stderr, exit_status, raised_in>>

Line(kind, name, yes, n, m) == [kind |-> kind, name |-> name, yes |-> yes, n |-> n, m |-> m]

Init ==
    /\ prog \in {"disk", "nic"}
    /\ pc = "get_maas_machines"
    /\ fetch = ""
    /\ queries = 0
    /\ machines = <<>>
    /\ idx = 0
    /\ machine_name = NoneStr
    /\ boot_disk_info = NoBootDiskInfo
    /\ block_device_info = NoBlockDevices
    /\ interface_data = NoInterfaces
    /\ category = ""
    /\ categories = [c \in Categories |-> <<>>]
    /\ machines_meeting = <<>>
    /\ machines_not_meeting = <<>>
    /\ stdout = <<>>
    /\ stderr = ""
    /\ exit_status = -1
    /\ raised_in = ""

\* An exception nobody catches: the traceback goes to the error stream and
\* the interpreter exits with status 1.
Uncaught(where) ==
    /\ pc' = "exited"
    /\ stderr' = "Traceback"
    /\ exit_status' = 1
    /\ raised_in' = where

\* get_maas_machines returns the parsed list; main prints its length and
\* makes the empty buckets.
FetchOK ==
    /\ pc = "get_maas_machines"
    /\ \E ms \in MachineLists(prog) :
          /\ machines' = ms
          /\ stdout' = Append(stdout, Line("count", NoneStr, FALSE, Len(ms), 0))
    /\ fetch' = "ok"
    /\ queries' = queries + 1
    /\ pc' = "for"
    /\ UNCHANGED <<prog, idx, locals, buckets, ending>>

\* get_maas_machines catches CalledProcessError (the command exits non-zero)
\* and JSONDecodeError, reports it and calls sys.exit(1).
FetchError ==
    /\ pc = "get_maas_machines"
    /\ \E e \in {"CalledProcessError", "JSONDecodeError"} :
          /\ fetch' = e
          /\ stderr' = IF e = "CalledProcessError"
                       THEN "Error running maas command"
                       ELSE "Error parsing JSON output"
    /\ queries' = queries + 1
    /\ pc' = "exited"
    /\ exit_status' = 1
    /\ UNCHANGED <<prog, machines, idx, locals, buckets, stdout, raised_in>>

\* subprocess.run raises what get_maas_machines does not catch (the maas
\* command is not installed: FileNotFoundError).
FetchUncaught ==
    /\ pc = "get_maas_machines"
    /\ fetch' = "FileNotFoundError"
    /\ queries' = queries + 1
    /\ Uncaught("get_maas_machines")
    /\ UNCHANGED <<prog, machines, idx, locals, buckets, stdout>>

\* The for statement takes the next record and resolves its name.
ForMachine ==
    /\ pc = "for"
    /\ idx < Len(machines)
    /\ idx' = idx + 1
    /\ machine_name' = resolve_name(machines[idx + 1])
    /\ pc' = "analyze"
    /\ UNCHANGED <<run, boot_disk_info, block_device_info, interface_data, category,
                   buckets, stdout, ending>>

\* boot_disk_info = analyze_boot_disk(machine)
AnalyzeBootDisk ==
    /\ prog = "disk"
    /\ pc = "analyze"
    /\ LET r == analyze_boot_disk(machines[idx])
       IN  IF r.raised
           THEN /\ Uncaught("analyze_boot_disk")
                /\ UNCHANGED boot_disk_info
           ELSE /\ boot_disk_info' = r
                /\ pc' = "analyze_block_devices"
                /\ UNCHANGED ending
    /\ UNCHANGED <<run, idx, machine_name, block_device_info, interface_data,
                   category, buckets, stdout>>

\* block_device_info = analyze_block_devices(machine, boot_disk_info["id"])
AnalyzeBlockDevices ==
    /\ prog = "disk"
    /\ pc = "analyze_block_devices"
    /\ LET r == analyze_block_devices(machines[idx], boot_disk_info.id)
       IN  IF r.raised
           THEN /\ Uncaught("analyze_block_devices")
                /\ UNCHANGED block_device_info
           ELSE /\ block_device_info' = r
                /\ pc' = "print_machine_details"
                /\ UNCHANGED ending
    /\ UNCHANGED <<run, idx, machine_name, boot_disk_info, interface_data,
                   category, buckets, stdout>>

\* print_machine_details (disk): the name, the number of device lines, the
\* count of additional SSDs and the verdict.
PrintMachineDetailsDisk ==
    /\ prog = "disk"
    /\ pc = "print_machine_details"
    /\ stdout' = Append(stdout,
          Line("machine", machine_name,
               has_required_config(boot_disk_info, block_device_info),
               block_device_info.additional_1tb_ssds,
               Len(block_device_info.device_info)))
    /\ pc' = "categorize"
    /\ UNCHANGED <<run, idx, locals, buckets, ending>>

\* category = categorize_machine(...); categories[category].append(name).
\* A category of None is no key of the dictionary: KeyError.
CategorizeDisk ==
    /\ prog = "disk"
    /\ pc = "categorize"
    /\ category' = categorize_machine(boot_disk_info, block_device_info)
    /\ IF category' \in Categories
       THEN /\ categories' = [categories EXCEPT
                                 ![category'] = append_name(@, machine_name)]
            /\ pc' = "for"
            /\ UNCHANGED ending
       ELSE /\ Uncaught("main")
            /\ UNCHANGED categories
    /\ UNCHANGED <<run, idx, machine_name, boot_disk_info, block_device_info,
                   interface_data, machines_meeting, machines_not_meeting, stdout>>

RECURSIVE SumLen(_, _)
SumLen(cats, k) == IF k = 0 THEN 0 ELSE Len(cats[CategoryNames[k]]) + SumLen(cats, k - 1)

\* print_summary (disk): the total is the sum of the bucket lengths, the
\* compliant count the length of no_change_needed.  main returns: status 0.
PrintSummaryDisk ==
    /\ prog = "disk"
    /\ pc = "for"
    /\ idx = Len(machines)
    /\ stdout' = Append(stdout,
          Line("summary", NoneStr, FALSE, SumLen(categories, Len(CategoryNames)),
               Len(categories["no_change_needed"])))
    /\ pc' = "exited"
    /\ exit_status' = 0
    /\ UNCHANGED <<run, idx, locals, buckets, stderr, raised_in>>

\* interface_data = analyze_interfaces(machine)
AnalyzeInterfaces ==
    /\ prog = "nic"
    /\ pc = "analyze"
    /\ LET r == analyze_interfaces(machines[idx])
       IN  IF r.raised
           THEN /\ Uncaught("analyze_interfaces")
                /\ UNCHANGED interface_data
           ELSE /\ interface_data' = r
                /\ pc' = "print_machine_details"
                /\ UNCHANGED ending
    /\ UNCHANGED <<run, idx, machine_name, boot_disk_info, block_device_info,
                   category, buckets, stdout>>

\* print_machine_details (nic): the name, the number of interface lines, the
\* connected count and the verdict.
PrintMachineDetailsNic ==
    /\ prog = "nic"
    /\ pc = "print_machine_details"
    /\ stdout' = Append(stdout,
          Line("machine", machine_name, interface_data.meets_requirement,
               interface_data.connected_count, Len(interface_data.interfaces)))
    /\ pc' = "categorize"
    /\ UNCHANGED <<run, idx, locals, buckets, ending>>

\* The name goes to machines_meeting or machines_not_meeting.
CategorizeNic ==
    /\ prog = "nic"
    /\ pc = "categorize"
    /\ IF interface_data.meets_requirement
       THEN /\ machines_meeting' = append_name(machines_meeting, machine_name)
            /\ UNCHANGED machines_not_meeting
       ELSE /\ machines_not_meeting' = append_name(machines_not_meeting, machine_name)
            /\ UNCHANGED machines_meeting
    /\ pc' = "for"
    /\ UNCHANGED <<run, idx, locals, categories, stdout, ending>>

\* print_summary (nic): total = len(machines), then the two list lengths.
PrintSummaryNic ==
    /\ prog = "nic"
    /\ pc = "for"
    /\ idx = Len(machines)
    /\ stdout' = Append(stdout,
          Line("summary", NoneStr, FALSE, Len(machines), Len(machines_meeting)))
    /\ pc' = "exited"
    /\ exit_status' = 0
    /\ UNCHANGED <<run, idx, locals, buckets, stderr, raised_in>>

Next ==
    \/ FetchOK
    \/ FetchError
    \/ FetchUncaught
    \/ ForMachine
    \/ AnalyzeBootDisk
    \/ AnalyzeBlockDevices
    \/ PrintMachineDetailsDisk
    \/ CategorizeDisk
    \/ PrintSummaryDisk
    \/ AnalyzeInterfaces
    \/ PrintMachineDetailsNic
    \/ CategorizeNic
    \/ PrintSummaryNic

Spec == Init /\ [][Next]_vars

\* ------------------------------------------------------------------ claims
\* What the claims speak about, read off the records and the output.
SizeAtLeast1TB(size) == size.t = "int" /\ size.hi >= Limb
TaggedSSD(tags) == tags.t = "list" /\ \E k \in 1..Len(tags.l) : tags.l[k] = "ssd"
HasKey(field) == field.t # "absent"

MachineLines == {k \in 1..Len(stdout) : stdout[k].kind = "machine"}
YesLines == {k \in MachineLines : stdout[k].yes}
SummaryLines == {k \in 1..Len(stdout) : stdout[k].kind = "summary"}
Bucketed ==
    IF prog = "disk"
    THEN Len(categories["no_change_needed"]) + Len(categories["need_boot_disk_replacement"])
         + Len(categories["need_second_disk_replacement"])
         + Len(categories["need_second_disk_addition"])
         + Len(categories["need_both_boot_and_second_disk"])
    ELSE Len(machines_meeting) + Len(machines_not_meeting)

\* The name the policy gives a record: hostname if the record has the key,
\* else fqdn, else system_id, else "unknown".
PolicyName(m) ==
    IF HasKey(m.hostname) THEN m.hostname
    ELSE IF HasKey(m.fqdn) THEN m.fqdn
    ELSE IF HasKey(m.system_id) THEN m.system_id
    ELSE PyStr("unknown")

Occurrences(x, sq) == Cardinality({k \in 1..Len(sq) : sq[k] = x})

\* main has just filed machine idx.
JustFiled == pc = "for" /\ idx >= 1

\* The boot disk / block device assessment of machine idx is in the locals.
BootAnalyzed ==
    prog = "disk" /\ pc \in {"analyze_block_devices", "print_machine_details", "categorize"}
DevicesAnalyzed == prog = "disk" /\ pc \in {"print_machine_details", "categorize"}
IfacesAnalyzed == prog = "nic" /\ pc \in {"print_machine_details", "categorize"}

\* C1: in the disk audit categorize_machine never returns None (category is
\* always one of the five, and the bucket update never raises KeyError); the
\* buckets hold exactly the machines filed so far, each once, and after the
\* loop that is every machine of the list.
C1_FiveCategoriesPartition ==
    prog = "disk" =>
        /\ category \in Categories \cup {""}
        /\ raised_in # "main"
        /\ pc = "for" => Bucketed = idx
        /\ pc = "for" =>
              \A j \in 1..idx :
                 LET n == PolicyName(machines[j])
                 IN  Occurrences(n, categories["no_change_needed"])
                     + Occurrences(n, categories["need_boot_disk_replacement"])
                     + Occurrences(n, categories["need_second_disk_replacement"])
                     + Occurrences(n, categories["need_second_disk_addition"])
                     + Occurrences(n, categories["need_both_boot_and_second_disk"])
                     = Cardinality({i \in 1..idx : PolicyName(machines[i]) = n})
        /\ exit_status = 0 => idx = Len(machines) /\ Bucketed = Len(machines)

\* C1 witness: a run over three machines that ends with three buckets in use.
C1_Witness ==
    /\ prog = "disk" /\ exit_status = 0 /\ Len(machines) = 3
    /\ Cardinality({c \in Categories : categories[c] # <<>>}) = 3

\* C2: the category of a machine follows the decision table on (boot disk is
\* a 1TB+ SSD, count of additional 1TB+ SSDs, has a non-boot SSD under 1TB),
\* and the two examples of the specification come out as it says.
C2_DecisionTable ==
    (prog = "disk" /\ JustFiled) =>
        LET boot == boot_disk_info.is_1tb_ssd
            add == block_device_info.additional_1tb_ssds
            under == block_device_info.has_non_boot_ssd_under_1tb
            m == machines[idx]
        IN  /\ (boot /\ add >= 1) => category = "no_change_needed"
            /\ (~boot /\ add >= 1) => category = "need_boot_disk_replacement"
            /\ (boot /\ add = 0 /\ under) => category = "need_second_disk_replacement"
            /\ (boot /\ add = 0 /\ ~under) => category = "need_second_disk_addition"
            /\ (~boot /\ add = 0) => category = "need_both_boot_and_second_disk"
            /\ (/\ m.boot_disk = PyDict(Device(PyInt(1), TB, SSD))
                /\ m.blockdevice_set = [t |-> "list", l |-> <<Device(PyInt(2), HalfTB, SSD)>>])
               => category = "need_second_disk_replacement"
            /\ (/\ m.boot_disk = PyDict(Device(PyInt(1), TwoTB, Rotary))
                /\ m.blockdevice_set = [t |-> "list", l |-> <<Device(PyInt(2), TB, SSD)>>])
               => category = "need_boot_disk_replacement"

\* C2 witness: a machine with a 1TB+ SSD boot disk, no additional one and a
\* small SSD has been filed.
C2_Witness ==
    /\ prog = "disk" /\ JustFiled
    /\ boot_disk_info.is_1tb_ssd
    /\ block_device_info.additional_1tb_ssds = 0
    /\ block_device_info.has_non_boot_ssd_under_1tb
    /\ category = "need_second_disk_replacement"

\* C3: the boot disk is reported a 1TB+ SSD iff the record has a boot disk
\* that carries the tag "ssd" and whose size is at least 10^12 bytes; a record
\* without the boot_disk key is reported as size 0, not SSD, not qualifying,
\* and analyze_boot_disk raises nothing for it.
C3_BootDiskQualifies ==
    /\ BootAnalyzed =>
          LET b == machines[idx].boot_disk
          IN  /\ boot_disk_info.is_1tb_ssd <=>
                    (b.t = "dict" /\ TaggedSSD(b.d.tags) /\ SizeAtLeast1TB(b.d.size))
              /\ b.t = "absent" =>
                    /\ boot_disk_info.size = PyInt(0)
                    /\ ~boot_disk_info.is_ssd
                    /\ ~boot_disk_info.is_1tb_ssd
    /\ raised_in = "analyze_boot_disk" => machines[idx].boot_disk.t = "dict"

\* C3 witness: an SSD boot disk of exactly 10^12 bytes was found to qualify.
C3_Witness ==
    /\ BootAnalyzed
    /\ machines[idx].boot_disk.t = "dict"
    /\ machines[idx].boot_disk.d.size = TB
    /\ boot_disk_info.is_1tb_ssd

\* C4: a device is left out of the count and of the under-1TB flag only when
\* the record has a boot disk and the device's id equals the boot disk's id
\* (two missing ids taken as equal); every other device is examined, so with
\* no boot disk none is left out.
C4_OnlyBootDiskExcluded ==
    DevicesAnalyzed =>
        LET m == machines[idx]
            devs == m.blockdevice_set.l
            excluded(d) == /\ m.boot_disk.t = "dict"
                           /\ Get(d.id, PyNone) = Get(m.boot_disk.d.id, PyNone)
            big == {k \in 1..Len(devs) :
                       /\ ~excluded(devs[k])
                       /\ TaggedSSD(devs[k].tags)
                       /\ SizeAtLeast1TB(Get(devs[k].size, PyInt(0)))}
            small == {k \in 1..Len(devs) :
                       /\ ~excluded(devs[k])
                       /\ TaggedSSD(devs[k].tags)
                       /\ ~SizeAtLeast1TB(Get(devs[k].size, PyInt(0)))}
        IN  /\ block_device_info.additional_1tb_ssds = Cardinality(big)
            /\ block_device_info.has_non_boot_ssd_under_1tb <=> (small # {})

\* C5: connected_count is the number of interfaces whose name holds no "."
\* and whose link_speed is present and above 0, whatever enabled and
\* interface_speed are; meets_requirement iff that is at least 3; the
\* interfaces returned are the ones without "." in the name; without the
\* interface_set key the result is no interface, zero connected, fail.
C5_ConnectedInterfaces ==
    IfacesAnalyzed =>
        LET is == machines[idx].interface_set
            dotted(i) == i.name.t = "str" /\ \E k \in 1..Len(i.name.s) : i.name.s[k] = "."
            plain == {k \in 1..Len(is.l) : ~dotted(is.l[k])}
            connected == {k \in plain : is.l[k].link_speed.t = "int"
                                        /\ is.l[k].link_speed.lo > 0}
        IN  /\ interface_data.connected_count = Cardinality(connected)
            /\ interface_data.meets_requirement <=> Cardinality(connected) >= 3
            /\ Len(interface_data.interfaces) = Cardinality(plain)
            /\ \A j \in 1..Len(interface_data.interfaces) :
                  \A k \in 1..Len(interface_data.interfaces[j].name) :
                     interface_data.interfaces[j].name[k] # "."
            /\ is.t = "absent" =>
                  /\ interface_data.interfaces = <<>>
                  /\ interface_data.connected_count = 0
                  /\ ~interface_data.meets_requirement

\* C5 witness: a machine passes with three connected interfaces, one of them
\* disabled and without interface_speed.
C5_Witness ==
    /\ IfacesAnalyzed
    /\ interface_data.meets_requirement
    /\ \E j \in 1..Len(interface_data.interfaces) :
          /\ ~interface_data.interfaces[j].enabled
          /\ interface_data.interfaces[j].interface_speed = PyNone

\* C6: a record with a missing or null field never aborts the batch: once
\* the fetch has succeeded the run ends with every machine printed and filed
\* and with the summary.
C6_NoRecordAbortsTheBatch ==
    (fetch = "ok" /\ pc = "exited") =>
        /\ raised_in = ""
        /\ Cardinality(MachineLines) = Len(machines)
        /\ Bucketed = Len(machines)
        /\ SummaryLines # {}

\* C7: the query is issued once; a failed or unparseable query ends the run
\* with a report and a non-zero status before any machine is handled; every
\* other run ends with status zero.
C7_ExitStatus ==
    /\ queries <= 1
    /\ pc # "get_maas_machines" => queries = 1
    /\ fetch \notin {"", "ok"} =>
          /\ pc = "exited" /\ exit_status # 0 /\ stderr # ""
          /\ idx = 0 /\ MachineLines = {} /\ Bucketed = 0
    /\ (pc = "exited" /\ fetch = "ok") => exit_status = 0

\* C8: the name recorded for a machine is its hostname if the record has the
\* key, else its fqdn, else its system_id, else "unknown"; that is the name
\* printed and the name appended to the bucket.
C8_NameResolution ==
    /\ (idx >= 1 /\ pc # "exited") => machine_name = PolicyName(machines[idx])
    /\ \A k \in MachineLines :
          stdout[k].name = PolicyName(machines[Cardinality({i \in MachineLines : i <= k})])
    /\ JustFiled =>
          LET bucket == IF prog = "disk" THEN categories[category]
                        ELSE IF interface_data.meets_requirement THEN machines_meeting
                        ELSE machines_not_meeting
          IN  bucket # <<>> /\ bucket[Len(bucket)] = PolicyName(machines[idx])

\* C8 witness: a record without hostname was filed under its fqdn.
C8_Witness ==
    /\ JustFiled
    /\ ~HasKey(machines[idx].hostname)
    /\ HasKey(machines[idx].system_id)
    /\ machine_name = PyStr("f1")
    /\ \/ prog = "nic" /\ machines_meeting = <<PyStr("f1")>>
       \/ prog = "disk" /\ categories["no_change_needed"] = <<PyStr("f1")>>

\* The positions of C9: what has been printed and filed when main is at pc.
C9_Positions ==
    /\ pc = "for" => Cardinality(MachineLines) = idx /\ Bucketed = idx
    /\ pc \in {"analyze", "analyze_block_devices", "print_machine_details"} =>
          Cardinality(MachineLines) = idx - 1 /\ Bucketed = idx - 1
    /\ pc = "categorize" => Cardinality(MachineLines) = idx /\ Bucketed = idx - 1
    /\ \A k \in SummaryLines :
          /\ k = Len(stdout)
          /\ idx = Len(machines)
          /\ Cardinality(MachineLines) = Len(machines)
          /\ stdout[k].n = Len(machines)
          /\ stdout[k].m = IF prog = "disk" THEN Len(categories["no_change_needed"])
                           ELSE Len(machines_meeting)

\* A bucket stays as it is or gets the name of machine idx at its end.
C9_Grows(old, new) == new = old \/ new = Append(old, PolicyName(machines[idx]))

\* C9: machines are handled one at a time in fetch order: machine idx is
\* printed and filed before machine idx + 1 is taken, the summary comes last
\* and reports the number of fetched records and the size of the compliant
\* bucket, and a bucket only ever grows by the current machine's name at its
\* end, so its names stand in fetch order.
C9_FetchOrder ==
    /\ [] C9_Positions
    /\ [][/\ idx' \in {idx, idx + 1}
          /\ idx' = idx + 1 => pc = "for"
          /\ \A c \in Categories : C9_Grows(categories[c], categories'[c])
          /\ C9_Grows(machines_meeting, machines_meeting')
          /\ C9_Grows(machines_not_meeting, machines_not_meeting')
          /\ Bucketed' \in {Bucketed, Bucketed + 1}]_vars

\* C9 witness: a finished run over three machines in which one bucket holds
\* two different names, the earlier record's first.
C9_Witness ==
    /\ exit_status = 0 /\ Len(machines) = 3
    /\ \E i, j \in 1..3 :
          /\ i < j
          /\ PolicyName(machines[i]) # PolicyName(machines[j])
          /\ \/ prog = "disk" /\ \E c \in Categories :
                   categories[c] = <<PolicyName(machines[i]), PolicyName(machines[j])>>
             \/ prog = "nic" /\
                   machines_meeting = <<PolicyName(machines[i]), PolicyName(machines[j])>>

\* C10: in the disk audit a machine is printed with the verdict YES iff it is
\* filed in no_change_needed, so the number of YES verdicts is the summary's
\* count of machines meeting the requirements.
C10_VerdictMatchesSummary ==
    prog = "disk" =>
        /\ JustFiled =>
              LET last == CHOOSE k \in MachineLines : \A i \in MachineLines : i <= k
              IN  stdout[last].yes <=> category = "no_change_needed"
        /\ pc = "for" => Cardinality(YesLines) = Len(categories["no_change_needed"])
        /\ \A k \in SummaryLines : stdout[k].m = Cardinality(YesLines)

\* C10 witness: a finished run with a YES and a NO verdict.
C10_Witness ==
    /\ prog = "disk" /\ exit_status = 0
    /\ YesLines # {} /\ YesLines # MachineLines

====
